---- MODULE Spec2Model ----
(***************************************************************************)
(* Model of the weee-bridge cart automation handlers.                      *)
(*                                                                         *)
(* Three evolutions of the batch handler live in the repository and are    *)
(* modelled side by side, selected by the variable `variant`:              *)
(*   "stream"  src/api/weee/cart/add-real.ts   (streaming progress)        *)
(*   "json"    src/unnamed/part_001, l. 1-200  (single JSON document)      *)
(*   "legacy"  src/unnamed/part_000            (first version)             *)
(*                                                                         *)
(* Strings that the code takes apart (the Authorization header) are        *)
(* sequences of words; a JS number is a record [nan, v].                   *)
(***************************************************************************)
EXTENDS Integers, Sequences, FiniteSets, TLC

\* ------------------------------------------------------------------ bounds
MaxItems == 4
MaxFaults == 2
MaxLeaks == 1

\* ------------------------------------------------------- program constants
maxAttempts == 3
CooldownMs == 30000
PaceMs == 2500
BatchPauseMs == 10000
BatchSize == 3

Variants == {"stream", "json", "legacy"}

\* ------------------------------------------------------------- error text
OK == "ok"
TimeoutMsg == "Timeout exceeded"
ErrMsgs == {TimeoutMsg, "Unexpected server response: 429", "Too Many Requests"}
Outcomes == {OK} \cup ErrMsgs

\* String(err) of an Error object with message m
ErrorString(m) == "Error: " \o m

\* /429|Too Many Requests/i.test(msg)
isRateLimit(msg) ==
  msg \in {"429", "Unexpected server response: 429", "Too Many Requests"}

\* s.includes("429")
includes429(s) ==
  s \in {"429", "Error: 429", "Unexpected server response: 429",
         "Error: Unexpected server response: 429"}

\* ------------------------------------------------------------ requireAuth
Secret == <<"s3cret">>
Wrong == <<"wrong">>
NoValue == <<>>
Headers ==
  { NoValue, <<"Bearer">> \o Secret, <<"Bearer">> \o Wrong, Secret,
    <<"bearer">> \o Secret, <<"Bearer", "Bearer">> \o Secret, <<"Bearer">> }
\* the headers of the batch runs: one that carries the secret, one that does not
MainHeaders == {<<"Bearer">> \o Secret, <<"Bearer">> \o Wrong}
Tokens == {NoValue, Secret}

toLowerCase(w) == IF w \in {"Bearer", "BEARER"} THEN "bearer" ELSE w

\* while (/^Bearer\s+/i.test(auth)) auth = auth.replace(/^Bearer\s+/i, "").trim()
RECURSIVE stripAllBearer(_)
stripAllBearer(h) ==
  IF Len(h) >= 2 /\ toLowerCase(h[1]) = "bearer"
  THEN stripAllBearer(Tail(h))
  ELSE h

\* header.replace("Bearer ", ""): the first "Bearer" that a space follows
replaceFirstBearer(h) ==
  LET hits == {j \in 1..(Len(h) - 1) : h[j] = "Bearer"}
  IN IF hits = {} THEN h
     ELSE LET j == CHOOSE x \in hits : \A y \in hits : x <= y
          IN SubSeq(h, 1, j - 1) \o SubSeq(h, j + 1, Len(h))

requireAuthLenient(h, t) ==
  LET auth == stripAllBearer(h)
  IN \/ (auth = NoValue /\ t # NoValue)
     \/ (auth # NoValue /\ auth = t)

requireAuthStrict(h, t) ==
  LET auth == replaceFirstBearer(h)
  IN ~(auth = NoValue \/ auth # t)

requireAuth(v, h, t) ==
  IF v = "legacy" THEN requireAuthStrict(h, t) ELSE requireAuthLenient(h, t)

\* ------------------------------------------------------------ request body
Num(n) == [nan |-> FALSE, v |-> n]
NaN == [nan |-> TRUE, v |-> 0]
GT(a, n) == ~a.nan /\ a.v > n

\* raw qty of a request item: absent, a number, or a non-numeric string
Absent == [t |-> "absent", v |-> 0]
RawNum(n) == [t |-> "num", v |-> n]
RawStr == [t |-> "str", v |-> 0]

ItemPool ==
  { [name |-> "milk", unit |-> "", qty |-> Absent],
    [name |-> "eggs", unit |-> "dozen", qty |-> RawNum(3)] }

\* the item lists of the requests: the two items in turn, starting with either
Milk == CHOOSE it \in ItemPool : it.name = "milk"
Eggs == CHOOSE it \in ItemPool : it.name = "eggs"
ItemLists ==
  {[k \in 1..n |-> IF k % 2 = first THEN Milk ELSE Eggs] : n \in 0..MaxItems, first \in 0..1}

\* raw qty values of a request item, and the one-item requests that carry them
QtyPool == {Absent, RawStr, RawNum(-2), RawNum(0), RawNum(1), RawNum(2), RawNum(3)}
QtyItems == {[name |-> "rice", unit |-> "", qty |-> r] : r \in QtyPool}
QtyBodies == {[kind |-> "array", items |-> <<it>>] : it \in QtyItems}

\* req.body.items: absent, present but no array, or an array of items
Bodies ==
  {[kind |-> k, items |-> <<>>] : k \in {"absent", "notArray"}}
    \cup {[kind |-> "array", items |-> s] : s \in ItemLists}

\* Array.isArray(body?.items) ? body.items : []
itemsOf(body) == IF body.kind = "array" THEN body.items ELSE <<>>

\* mutant: the emptiness test is missing
validItemsAlways(its) == TRUE

\* if (!items.length) return 400
validItems(its) == Len(its) # 0

\* [it.name, it.unit].filter(Boolean).join(" ").trim()
ResolvedQuery(it) ==
  (IF it.name = "" THEN <<>> ELSE <<it.name>>)
    \o (IF it.unit = "" THEN <<>> ELSE <<it.unit>>)

\* Number(it.qty || 1)
toQty(raw) ==
  IF raw.t = "absent" THEN Num(1)
  ELSE IF raw.t = "str" THEN NaN
  ELSE IF raw.v = 0 THEN Num(1)
  ELSE Num(raw.v)

\* ------------------------------------------------------------------ addItem
Min(a, b) == IF a < b THEN a ELSE b

NoResult == [none |-> TRUE]
Added(q, title, qty) == [added |-> TRUE, query |-> q, title |-> title, qty |-> qty]
NotFound(q, why) == [added |-> FALSE, query |-> q, reason |-> why]
Failed(q, err) == [added |-> FALSE, query |-> q, error |-> err]

isAdded(r) == "added" \in DOMAIN r /\ r.added
isNotFound(r) == "reason" \in DOMAIN r
isFailed(r) == "error" \in DOMAIN r

\* What one addItem invocation did to the page (history of the call).
\*   searched    the query was submitted and the results view settled
\*   counted     the result entries were enumerated; cards is their number
\*   openTried   a click on a result entry was attempted; opened: it succeeded
\*   addFound    an add-to-cart control was present; addTried / addClicked:
\*               a click on it was attempted / succeeded
\*   plusTried   clicks attempted on the quantity-increase control; plusDone:
\*               those that succeeded
\*   rlAt        the state in which a rate-limit error occurred, or "none"
\*   qty         the qty argument the invocation received
\*   end         how the invocation ended: added, notfound, failed or raised
NoHist ==
  [ searched |-> FALSE, counted |-> FALSE, cards |-> 0, openTried |-> FALSE,
    opened |-> FALSE, addFound |-> FALSE, addTried |-> FALSE, addClicked |-> FALSE,
    plusTried |-> 0, plusDone |-> 0, rlAt |-> "none", qty |-> Num(0), end |-> "none" ]

endOf(r) == IF isAdded(r) THEN "added" ELSE IF isNotFound(r) THEN "notfound" ELSE "failed"

Return(r, h) ==
  [ret |-> "return", val |-> r, msg |-> "", hist |-> [h EXCEPT !.end = endOf(r)]]
Throw(m, h) ==
  [ret |-> "throw", val |-> NoResult, msg |-> m, hist |-> [h EXCEPT !.end = "raised"]]

\* The page's answers to one addItem invocation: result entries found (the
\* entries after the chosen one play no part in what follows), and how many
\* clicks on the quantity-increase control succeed before one fails.
CardCounts == {0, 1}
PlusOks == {0, 1, 2}
PlusAll == CHOOSE p \in PlusOks : \A r \in PlusOks : r <= p
EnvDefault ==
  [ home |-> OK, search |-> OK, enum |-> OK, cards |-> 1, open |-> OK,
    addCount |-> 1, addClick |-> OK, plusOk |-> PlusAll, plusErr |-> TimeoutMsg,
    title |-> <<>> ]
\* text of the detail view's h1/h2 (empty: no such element)
Titles == {<<>>, <<"Product", "title">>}
AddEnvs ==
  {[EnvDefault EXCEPT !.home = m] : m \in ErrMsgs}
    \cup {[EnvDefault EXCEPT !.search = m] : m \in ErrMsgs}
    \cup {[EnvDefault EXCEPT !.enum = m] : m \in ErrMsgs}
    \cup {[EnvDefault EXCEPT !.cards = 0]}
    \cup {[EnvDefault EXCEPT !.cards = c, !.open = m] : c \in CardCounts \ {0}, m \in ErrMsgs}
    \cup {[EnvDefault EXCEPT !.cards = c, !.addClick = m] : c \in CardCounts \ {0}, m \in ErrMsgs}
    \cup {[EnvDefault EXCEPT !.cards = c, !.addCount = a, !.plusOk = p, !.title = t]
            : c \in CardCounts \ {0}, a \in 0..1, p \in {PlusAll}, t \in Titles}
    \cup {[EnvDefault EXCEPT !.cards = c, !.addCount = a, !.plusOk = p, !.plusErr = m,
                             !.title = t]
            : c \in CardCounts \ {0}, a \in 0..1, p \in PlusOks \ {PlusAll}, m \in ErrMsgs,
              t \in Titles}

\* mutant: the loop starts at 0
plusWantedFromZero(qty) == IF GT(qty, 1) THEN qty.v ELSE 0

\* quantity-increase loop: for (i = 1; i < qty; i++) click; the p first clicks succeed
plusWanted(qty) == IF GT(qty, 1) THEN qty.v - 1 ELSE 0

\* add-real.ts: every failure is caught; a rate limit is re-thrown as Error("429")
addItemStream(q, qty, e) ==
  LET fail(m, h, at) ==
        IF isRateLimit(m) THEN Throw("429", [h EXCEPT !.rlAt = at])
        ELSE Return(Failed(q, m), h)
      h1 == [NoHist EXCEPT !.searched = TRUE]
      h2 == [h1 EXCEPT !.counted = TRUE, !.cards = e.cards, !.openTried = TRUE]
      h3 == [h2 EXCEPT !.opened = TRUE, !.addFound = (e.addCount > 0)]
      want == plusWanted(qty)
      done == Min(want, e.plusOk)
      tried == Min(want, e.plusOk + 1)
      h4 == [h3 EXCEPT !.addTried = (e.addCount > 0), !.addClicked = (e.addCount > 0),
                       !.plusTried = tried, !.plusDone = done,
                       !.rlAt = IF tried > done /\ isRateLimit(e.plusErr)
                                THEN "adjusting" ELSE "none"]
  IN IF e.search # OK THEN fail(e.search, NoHist, "searching")
     ELSE IF e.enum # OK THEN fail(e.enum, h1, "matching")
     ELSE IF e.cards = 0 THEN fail(TimeoutMsg, h2, "adding")
     ELSE IF e.open # OK THEN fail(e.open, h2, "adding")
     ELSE IF e.addCount > 0 /\ e.addClick # OK
          THEN fail(e.addClick, [h3 EXCEPT !.addTried = TRUE], "adding")
     ELSE Return(Added(q, q, qty), h4)

\* part_001: as above, but the add click has its own catch and nothing is re-thrown
addItemJson(q, qty, e) ==
  LET fail(m, h, at) ==
        Return(Failed(q, m), [h EXCEPT !.rlAt = IF isRateLimit(m) THEN at ELSE "none"])
      h1 == [NoHist EXCEPT !.searched = TRUE]
      h2 == [h1 EXCEPT !.counted = TRUE, !.cards = e.cards, !.openTried = TRUE]
      h3 == [h2 EXCEPT !.opened = TRUE, !.addFound = (e.addCount > 0)]
      want == plusWanted(qty)
      done == Min(want, e.plusOk)
      tried == Min(want, e.plusOk + 1)
      h4 == [h3 EXCEPT !.addTried = (e.addCount > 0), !.addClicked = (e.addCount > 0),
                       !.plusTried = tried, !.plusDone = done,
                       !.rlAt = IF tried > done /\ isRateLimit(e.plusErr)
                                THEN "adjusting" ELSE "none"]
  IN IF e.search # OK THEN fail(e.search, NoHist, "searching")
     ELSE IF e.enum # OK THEN fail(e.enum, h1, "matching")
     ELSE IF e.cards = 0 THEN fail(TimeoutMsg, h2, "adding")
     ELSE IF e.open # OK THEN fail(e.open, h2, "adding")
     ELSE IF e.addCount > 0 /\ e.addClick # OK
          THEN fail("Failed to click add button", [h3 EXCEPT !.addTried = TRUE], "adding")
     ELSE Return(Added(q, q, qty), h4)

\* part_000: no catch at all; zero cards is tested; the add click is unconditional
addItemLegacy(q, qty, e) ==
  LET fail(m, h, at) ==
        Throw(m, [h EXCEPT !.rlAt = IF isRateLimit(m) THEN at ELSE "none"])
      h1 == [NoHist EXCEPT !.searched = TRUE]
      h2 == [h1 EXCEPT !.counted = TRUE, !.cards = e.cards]
      h3 == [h2 EXCEPT !.openTried = TRUE, !.opened = TRUE,
                       !.addFound = (e.addCount > 0), !.addTried = TRUE]
      want == plusWanted(qty)
      done == Min(want, e.plusOk)
      tried == Min(want, e.plusOk + 1)
      h4 == [h3 EXCEPT !.addClicked = TRUE, !.plusTried = tried, !.plusDone = done]
  IN IF e.home # OK THEN fail(e.home, NoHist, "searching")
     ELSE IF e.search # OK THEN fail(e.search, NoHist, "searching")
     ELSE IF e.enum # OK THEN fail(e.enum, h1, "matching")
     ELSE IF e.cards = 0 THEN Return(NotFound(q, "No results"), h2)
     ELSE IF e.open # OK THEN fail(e.open, [h2 EXCEPT !.openTried = TRUE], "adding")
     ELSE IF e.addCount = 0 THEN fail(TimeoutMsg, h3, "adding")
     ELSE IF e.addClick # OK THEN fail(e.addClick, h3, "adding")
     ELSE IF tried > done THEN fail(e.plusErr, h4, "adjusting")
     ELSE Return(Added(q, IF e.title = <<>> THEN q ELSE e.title, qty), h4)

addItem(v, q, qty, e) ==
  LET out == CASE v = "stream" -> addItemStream(q, qty, e)
               [] v = "json" -> addItemJson(q, qty, e)
               [] OTHER -> addItemLegacy(q, qty, e)
  IN [out EXCEPT !.hist.qty = qty]

\* -------------------------------------------------------------- openBrowser
WsPool == {"", "wss://host?token=t", "wss://host/playwright?token=t"}

\* ws.replace(/\/playwright(\?|$)/, "$1")
normalizeWs(ws) ==
  IF ws = "wss://host/playwright?token=t" THEN "wss://host?token=t" ELSE ws

\* mutant: a fixed delay instead of one that grows with the attempt
BackoffFixed(attempt) == 300 + 200

\* sleep(300 * attempt + 200 * attempt)
Backoff(attempt) == 300 * attempt + 200 * attempt

\* One pass of the connection loop.  c1/x1: connect and newContext of the first
\* protocol, c2/x2: of the fallback (part_001 only).  `opened` counts the remote
\* connections the pass established, `ok` says whether it returned a handle.
ConnEnvs ==
  {[c1 |-> a, x1 |-> b, c2 |-> c, x2 |-> d] :
      a \in Outcomes, b \in Outcomes, c \in Outcomes, d \in Outcomes}

firstError(c, x) == IF c # OK THEN c ELSE x

connectPass(v, e) ==
  LET ok1 == e.c1 = OK /\ e.x1 = OK
      ok2 == e.c2 = OK /\ e.x2 = OK
      n1 == IF e.c1 = OK THEN 1 ELSE 0
      n2 == IF e.c2 = OK THEN 1 ELSE 0
      msg == firstError(e.c1, e.x1)
      e2 == firstError(e.c2, e.x2)
  IN IF ok1 THEN [ok |-> TRUE, opened |-> 1, err |-> "", rl |-> FALSE, protos |-> 1]
     ELSE IF v = "json"
     THEN IF ok2
          THEN [ok |-> TRUE, opened |-> n1 + 1, err |-> "", rl |-> FALSE, protos |-> 2]
          ELSE [ok |-> FALSE, opened |-> n1 + n2, err |-> e2,
                rl |-> (isRateLimit(msg) \/ isRateLimit(e2)), protos |-> 2]
     ELSE [ok |-> FALSE, opened |-> n1, err |-> msg, rl |-> isRateLimit(msg),
           protos |-> 1]

\* an environment record is canonical when the answers nobody asks for are OK
canonicalConn(v, e) ==
  /\ (e.c1 # OK => e.x1 = OK)
  /\ (e.c2 # OK => e.x2 = OK)
  /\ ((v # "json" \/ (e.c1 = OK /\ e.x1 = OK)) => (e.c2 = OK /\ e.x2 = OK))

\* mutant: every failed pass is retried
retryConnectAlways(v, pass) == v # "legacy"

\* the retry decision of the catch block; the legacy version has no loop
retryConnect(v, pass) == v # "legacy" /\ pass.rl

\* ------------------------------------------------------ session initializer
SameSites == {"Strict", "Lax", "None"}
CookieEnvs ==
  { [kind |-> "unset", jar |-> <<>>],
    [kind |-> "badjson", jar |-> <<>>],
    [kind |-> "notArray", jar |-> <<>>],
    [kind |-> "array", jar |-> <<>>],
    [kind |-> "array", jar |-> <<"Lax", "missing">>],
    [kind |-> "array", jar |-> <<"Strict", "Lax", "None", "missing", "no_restriction">>] }

normalizeSameSite(v, c) ==
  IF v = "legacy" THEN c ELSE IF c \in SameSites THEN c ELSE "Lax"

normalizeJar(v, jar) == [k \in DOMAIN jar |-> normalizeSameSite(v, jar[k])]

Urls == {"https://www.sayweee.com/en", "https://www.sayweee.com/en/account/login",
         "https://www.sayweee.com/SignIn"}

\* mutant: the pattern without its i flag
isLoginUrlCaseSensitive(url) == url = "https://www.sayweee.com/en/account/login"

\* /login|signin/i.test(url)
isLoginUrl(url) ==
  url \in {"https://www.sayweee.com/en/account/login", "https://www.sayweee.com/SignIn"}

SessionExpiredMsg == "Weee session is not logged in"
MissingWsMsg == "Missing BROWSERLESS_WS"
JsonParseMsg == "Unexpected token in JSON"

\* applySessionCookie: ce is WEEE_SESSION_COOKIE, a the answer of addCookies;
\* jars: what addCookies was given (set), next to what the variable held (given)
applySessionCookie(v, ce, a) ==
  LET none == [ret |-> "return", val |-> FALSE, msg |-> "", jars |-> <<>>]
  IN IF ce.kind = "unset" THEN none
     ELSE IF ce.kind = "badjson"
          THEN IF v = "legacy" THEN none
               ELSE [ret |-> "throw", val |-> FALSE, msg |-> JsonParseMsg, jars |-> <<>>]
     ELSE IF ce.kind = "notArray" \/ Len(ce.jar) = 0 THEN none
     ELSE IF a = OK
          THEN [ret |-> "return", val |-> TRUE, msg |-> "",
                jars |-> <<[given |-> ce.jar, set |-> normalizeJar(v, ce.jar)]>>]
     ELSE IF v = "legacy" THEN none
     ELSE [ret |-> "throw", val |-> FALSE, msg |-> a, jars |-> <<>>]

\* ------------------------------------------------------------------ handler
\* the catch of one item: retry after a cooldown, or record the failure
itemCatch(v, q, msg) ==
  IF v = "stream"
  THEN IF includes429(ErrorString(msg))
       THEN [retry |-> TRUE, result |-> NoResult]
       ELSE [retry |-> FALSE, result |-> Failed(q, ErrorString(msg))]
  ELSE [retry |-> FALSE, result |-> Failed(q, msg)]

\* the catch of the retried invocation
retryCatch(q, msg) == Failed(q, ErrorString(msg))

\* mutant: unshift instead of push
pushResultFront(rs, r) == <<r>> \o rs

pushResult(rs, r) == Append(rs, r)

progressRecord(done, total, q, r) ==
  [progress |-> <<done, total>>, item |-> q, result |-> r]

\* mutant: the pause is also taken after the last item
batchPauseDueAlsoLast(i, n) == (i + 1) % BatchSize = 0

\* (i + 1) % 3 === 0 && i + 1 < items.length
batchPauseDue(i, n) == (i + 1) % BatchSize = 0 /\ i + 1 < n

\* lastErr = e
nextLastErr(old, e) == e

\* an addItem invocation that did not end Added uses up one unit of MaxFaults
cost(out) == IF out.ret = "return" /\ isAdded(out.val) THEN 0 ELSE 1

NoBody == [none |-> TRUE]

VARIABLES
  variant,     \* which evolution of the handler runs
  method, header, token,   \* req.method, req.headers.authorization, ACTIONS_BEARER_TOKEN
  pc,          \* position of the handler
  bodyKind,    \* what req.body.items was: "absent", "notArray" or "array"
  items,       \* the validated item list
  res,         \* status and document of a non-streamed response
  stream,      \* records written with res.write
  ended,       \* res.end() was called
  browser,     \* the handler's `browser`: "null" or "handle"
  connOpened,  \* remote connections established so far
  connOpen,    \* remote connections established and not closed
  closeCalls,  \* invocations of browser.close()
  attempt, lastErr,      \* openBrowser's locals
  backoffs, passLog,     \* openBrowser: the sleeps and the failed passes of this call
  steps,       \* the setup operations in the order they ran; "loop" marks the
               \* entry into the item loop
  hadCookie, installed,  \* result of applySessionCookie; jars given to addCookies
  landedUrl,   \* page.url() as ensureLoggedIn read it
  idx, processed, results, result,   \* loop index i, processed, results[], result
  calls, cooldowns, firstHist, hist,  \* the item in progress: addItem invocations,
                                      \* 30 s sleeps, its first and its last invocation
  addCalls,    \* addItem invocations of the whole batch
  faults,      \* addItem invocations that did not end Added
  fatal,       \* the error the outer catch received
  paces, pauses          \* pacing sleeps and batch pauses so far

vars ==
  << variant, method, header, token, pc, bodyKind, items, landedUrl, res, stream, ended, browser,
     connOpened, connOpen, closeCalls, attempt, lastErr, backoffs, passLog, steps,
     hadCookie, installed, idx, processed, results, result, calls, cooldowns,
     firstHist, hist, addCalls, faults, fatal, paces, pauses >>

hdrVars == <<variant, method, header, token>>
reqVars == <<hdrVars, bodyKind>>
logVars == <<steps, landedUrl>>
connVars == <<browser, connOpened, connOpen, attempt, lastErr, backoffs, passLog>>
itemVars == <<idx, processed, results, result, calls, cooldowns, firstHist, hist,
              addCalls, faults>>
outVars == <<res, stream, ended>>

InitWith(H) ==
  /\ variant \in Variants
  /\ method \in {"POST", "GET"}
  /\ header \in H
  /\ token \in Tokens
  /\ pc = "start"
  /\ bodyKind = "unread"
  /\ landedUrl = ""
  /\ items = <<>>
  /\ res = [code |-> 0, body |-> NoBody]
  /\ stream = <<>>
  /\ ended = FALSE
  /\ browser = "null"
  /\ connOpened = 0
  /\ connOpen = 0
  /\ closeCalls = 0
  /\ attempt = 0
  /\ lastErr = ""
  /\ backoffs = <<>>
  /\ passLog = <<>>
  /\ steps = <<>>
  /\ hadCookie = FALSE
  /\ installed = <<>>
  /\ idx = 0
  /\ processed = 0
  /\ results = <<>>
  /\ result = NoResult
  /\ calls = 0
  /\ cooldowns = 0
  /\ firstHist = NoHist
  /\ hist = NoHist
  /\ addCalls = 0
  /\ faults = 0
  /\ fatal = ""
  /\ paces = 0
  /\ pauses = 0

Init == InitWith(MainHeaders)
InitAuth == InitWith(Headers)

respond(code, body) == [code |-> code, body |-> body]

\* if (req.method !== "POST") return res.status(405)...
CheckMethod ==
  /\ pc = "start"
  /\ IF method # "POST"
     THEN /\ res' = respond(405, [error |-> "Method Not Allowed"])
          /\ pc' = "done"
     ELSE /\ pc' = "auth"
          /\ res' = res
  /\ UNCHANGED <<reqVars, items, stream, ended, connVars, closeCalls, logVars, hadCookie,
                 installed, itemVars, fatal, paces, pauses>>

\* if (!requireAuth(req, res)) return
Auth ==
  /\ pc = "auth"
  /\ IF requireAuth(variant, header, token)
     THEN /\ pc' = "validate"
          /\ res' = res
     ELSE /\ res' = respond(401, [error |-> "Unauthorized"])
          /\ pc' = "done"
  /\ UNCHANGED <<reqVars, items, stream, ended, connVars, closeCalls, logVars, hadCookie,
                 installed, itemVars, fatal, paces, pauses>>

\* items = Array.isArray(...) ? ... : []; if (!items.length) return 400;
\* the streaming version then sends its headers
ValidateWith(B) ==
  /\ pc = "validate"
  /\ \E body \in B :
       LET its == itemsOf(body)
       IN /\ items' = its
          /\ bodyKind' = body.kind
          /\ IF validItems(its)
             THEN /\ pc' = "open"
                  /\ res' = IF variant = "stream" THEN respond(200, NoBody) ELSE res
             ELSE /\ res' = respond(400, [error |-> "items[] required"])
                  /\ pc' = "done"
  /\ UNCHANGED <<hdrVars, stream, ended, connVars, closeCalls, logVars, hadCookie,
                 installed, itemVars, fatal, paces, pauses>>

Validate == ValidateWith(Bodies)
ValidateQty == ValidateWith(QtyBodies)

\* openBrowser, up to the loop: the endpoint must be configured
OpenBrowserStart ==
  /\ pc = "open"
  /\ steps' = Append(steps, "open")
  /\ \E ws \in WsPool :
       LET w == IF variant = "legacy" THEN ws ELSE normalizeWs(ws)
       IN IF w = ""
          THEN /\ fatal' = MissingWsMsg
               /\ pc' = "catch"
               /\ attempt' = attempt
          ELSE /\ attempt' = 1
               /\ pc' = "connect"
               /\ fatal' = fatal
  /\ UNCHANGED <<reqVars, items, outVars, browser, connOpened, connOpen, lastErr,
                 backoffs, passLog, closeCalls, hadCookie, installed, landedUrl,
                 itemVars, paces, pauses>>

afterConnect(v) == IF v = "legacy" THEN "cookie" ELSE "newpage"

\* one pass of the connection loop, with the catch block's decision
ConnectAttempt ==
  /\ pc = "connect"
  /\ \E e \in ConnEnvs :
       /\ canonicalConn(variant, e)
       /\ LET p == connectPass(variant, e)
              le == IF variant = "legacy" THEN lastErr ELSE nextLastErr(lastErr, p.err)
          IN /\ connOpen + p.opened - (IF p.ok THEN 1 ELSE 0) <= MaxLeaks
             /\ connOpened' = connOpened + p.opened
             /\ connOpen' = connOpen + p.opened
             /\ IF p.ok
                THEN /\ browser' = "handle"
                     /\ attempt' = 0
                     /\ lastErr' = ""
                     /\ backoffs' = <<>>
                     /\ passLog' = <<>>
                     /\ pc' = afterConnect(variant)
                     /\ fatal' = fatal
                ELSE /\ browser' = browser
                     /\ lastErr' = le
                     /\ backoffs' = backoffs
                     /\ passLog' = Append(passLog, [err |-> p.err, rl |-> p.rl,
                                                    protos |-> p.protos])
                     /\ IF retryConnect(variant, p)
                        THEN IF attempt < maxAttempts
                             THEN /\ pc' = "backoff"
                                  /\ attempt' = attempt
                                  /\ fatal' = fatal
                             ELSE /\ pc' = "catch"
                                  /\ attempt' = attempt + 1
                                  /\ fatal' = le
                        ELSE /\ pc' = "catch"
                             /\ attempt' = attempt
                             /\ fatal' = p.err
  /\ UNCHANGED <<reqVars, items, outVars, closeCalls, logVars, hadCookie, installed,
                 itemVars, paces, pauses>>

\* if (attempt < maxAttempts) await sleep(...); continue
ConnectBackoff ==
  /\ pc = "backoff"
  /\ backoffs' = Append(backoffs, Backoff(attempt))
  /\ attempt' = attempt + 1
  /\ pc' = "connect"
  /\ UNCHANGED <<reqVars, items, outVars, browser, connOpened, connOpen, lastErr,
                 passLog, closeCalls, logVars, hadCookie, installed, itemVars, fatal,
                 paces, pauses>>

\* const page = await context.newPage()
NewPage ==
  /\ pc = "newpage"
  /\ \E o \in {OK, TimeoutMsg} :
       IF o = OK
       THEN /\ pc' = IF variant = "legacy" THEN "loop" ELSE "cookie"
            /\ steps' = IF variant = "legacy" THEN steps \o <<"newPage", "loop">>
                        ELSE Append(steps, "newPage")
            /\ fatal' = fatal
       ELSE /\ pc' = "catch"
            /\ steps' = Append(steps, "newPage")
            /\ fatal' = o
  /\ UNCHANGED <<reqVars, items, outVars, connVars, closeCalls, hadCookie, installed,
                 landedUrl, itemVars, paces, pauses>>

\* hadCookie = await applySessionCookie(context)
ApplyCookie ==
  /\ pc = "cookie"
  /\ steps' = Append(steps, "cookie")
  /\ \E ce \in CookieEnvs, a \in {OK, TimeoutMsg} :
       /\ (a # OK => ce.kind = "array" /\ Len(ce.jar) > 0)
       /\ LET r == applySessionCookie(variant, ce, a)
          IN /\ installed' = installed \o r.jars
             /\ IF r.ret = "return"
                THEN /\ hadCookie' = r.val
                     /\ pc' = IF variant = "legacy" THEN "newpage" ELSE "login"
                     /\ fatal' = fatal
                ELSE /\ hadCookie' = hadCookie
                     /\ pc' = "catch"
                     /\ fatal' = r.msg
  /\ UNCHANGED <<reqVars, items, outVars, connVars, closeCalls, landedUrl, itemVars,
                 paces, pauses>>

\* await ensureLoggedIn(page)
EnsureLoggedIn ==
  /\ pc = "login"
  /\ \E g \in {OK, TimeoutMsg}, url \in Urls :
       /\ (g # OK => url = "https://www.sayweee.com/en")
       /\ IF g # OK
          THEN /\ pc' = "catch"
               /\ fatal' = g
               /\ landedUrl' = landedUrl
               /\ steps' = Append(steps, "login")
          ELSE IF isLoginUrl(url)
          THEN /\ pc' = "catch"
               /\ fatal' = SessionExpiredMsg
               /\ landedUrl' = url
               /\ steps' = Append(steps, "login")
          ELSE /\ pc' = "loop"
               /\ fatal' = fatal
               /\ landedUrl' = url
               /\ steps' = steps \o <<"login", "loop">>
  /\ UNCHANGED <<reqVars, items, outVars, connVars, closeCalls, hadCookie, installed,
                 itemVars, paces, pauses>>

curItem == items[idx + 1]
envFits(v, e) == v = "legacy" \/ e.home = OK

\* result = await addItem(page, q, qty); processed++  -- with its catch
ItemFirst ==
  /\ pc = "loop"
  /\ idx < Len(items)
  /\ \E e \in AddEnvs :
       /\ envFits(variant, e)
       /\ LET q == ResolvedQuery(curItem)
              out == addItem(variant, q, toQty(curItem.qty), e)
              c == itemCatch(variant, q, out.msg)
          IN /\ faults + cost(out) <= MaxFaults
             /\ faults' = faults + cost(out)
             /\ hist' = out.hist
             /\ firstHist' = out.hist
             /\ IF out.ret = "return"
                THEN /\ result' = out.val
                     /\ processed' = IF variant = "stream" THEN processed + 1 ELSE processed
                     /\ pc' = "record"
                ELSE /\ result' = c.result
                     /\ processed' = processed
                     /\ pc' = IF c.retry THEN "cooldown" ELSE "record"
  /\ calls' = 1
  /\ cooldowns' = 0
  /\ addCalls' = addCalls + 1
  /\ UNCHANGED <<reqVars, items, outVars, connVars, closeCalls, logVars, hadCookie,
                 installed, idx, results, fatal, paces, pauses>>

\* await sleep(30000)
ItemCooldown ==
  /\ pc = "cooldown"
  /\ cooldowns' = cooldowns + 1
  /\ pc' = "retry"
  /\ UNCHANGED <<reqVars, items, outVars, connVars, closeCalls, logVars, hadCookie,
                 installed, idx, processed, results, result, calls, firstHist, hist,
                 addCalls, faults, fatal, paces, pauses>>

\* mutant: the retry is repeated until it returns
ItemRetryAgain ==
  /\ pc = "retry"
  /\ \E e \in AddEnvs :
       /\ envFits(variant, e)
       /\ LET q == ResolvedQuery(curItem)
              out == addItem(variant, q, toQty(curItem.qty), e)
          IN /\ faults + cost(out) <= MaxFaults
             /\ faults' = faults + cost(out)
             /\ hist' = out.hist
             /\ IF out.ret = "return"
                THEN /\ result' = out.val
                     /\ processed' = processed + 1
                ELSE /\ result' = retryCatch(q, out.msg)
                     /\ processed' = processed
             /\ pc' = IF out.ret = "return" THEN "record" ELSE "cooldown"
  /\ calls' = calls + 1
  /\ addCalls' = addCalls + 1
  /\ UNCHANGED <<reqVars, items, outVars, connVars, closeCalls, logVars, hadCookie,
                 installed, idx, results, cooldowns, firstHist, fatal, paces, pauses>>

\* mutant: the retried invocation has no catch of its own
ItemRetryUncaught ==
  /\ pc = "retry"
  /\ \E e \in AddEnvs :
       /\ envFits(variant, e)
       /\ LET q == ResolvedQuery(curItem)
              out == addItem(variant, q, toQty(curItem.qty), e)
          IN /\ faults + cost(out) <= MaxFaults
             /\ faults' = faults + cost(out)
             /\ hist' = out.hist
             /\ IF out.ret = "return"
                THEN /\ result' = out.val
                     /\ processed' = processed + 1
                     /\ pc' = "record"
                     /\ fatal' = fatal
                ELSE /\ result' = result
                     /\ processed' = processed
                     /\ pc' = "catch"
                     /\ fatal' = out.msg
  /\ calls' = calls + 1
  /\ addCalls' = addCalls + 1
  /\ UNCHANGED <<reqVars, items, outVars, connVars, closeCalls, logVars, hadCookie,
                 installed, idx, results, cooldowns, firstHist, paces, pauses>>

\* mutant: processed is incremented in the catch of the retry as well
ItemRetryCounted ==
  /\ pc = "retry"
  /\ \E e \in AddEnvs :
       /\ envFits(variant, e)
       /\ LET q == ResolvedQuery(curItem)
              out == addItem(variant, q, toQty(curItem.qty), e)
          IN /\ faults + cost(out) <= MaxFaults
             /\ faults' = faults + cost(out)
             /\ hist' = out.hist
             /\ IF out.ret = "return"
                THEN /\ result' = out.val
                     /\ processed' = processed + 1
                ELSE /\ result' = retryCatch(q, out.msg)
                     /\ processed' = processed + 1
  /\ calls' = calls + 1
  /\ addCalls' = addCalls + 1
  /\ pc' = "record"
  /\ UNCHANGED <<reqVars, items, outVars, connVars, closeCalls, logVars, hadCookie,
                 installed, idx, results, cooldowns, firstHist, fatal, paces, pauses>>

\* the second addItem of the item, with its catch
ItemRetry ==
  /\ pc = "retry"
  /\ \E e \in AddEnvs :
       /\ envFits(variant, e)
       /\ LET q == ResolvedQuery(curItem)
              out == addItem(variant, q, toQty(curItem.qty), e)
          IN /\ faults + cost(out) <= MaxFaults
             /\ faults' = faults + cost(out)
             /\ hist' = out.hist
             /\ IF out.ret = "return"
                THEN /\ result' = out.val
                     /\ processed' = processed + 1
                ELSE /\ result' = retryCatch(q, out.msg)
                     /\ processed' = processed
  /\ calls' = calls + 1
  /\ addCalls' = addCalls + 1
  /\ pc' = "record"
  /\ UNCHANGED <<reqVars, items, outVars, connVars, closeCalls, logVars, hadCookie,
                 installed, idx, results, cooldowns, firstHist, fatal, paces, pauses>>

\* results.push(...)  /  res.write(JSON.stringify(progressUpdate));
\* the history of the item's invocations ends here
ItemRecord ==
  /\ pc = "record"
  /\ IF variant = "stream"
     THEN /\ stream' = Append(stream, progressRecord(processed, Len(items),
                                                    ResolvedQuery(curItem), result))
          /\ results' = results
          /\ idx' = idx
          /\ pc' = "pace"
     ELSE /\ results' = pushResult(results, result)
          /\ stream' = stream
          /\ idx' = idx + 1
          /\ pc' = "loop"
  /\ calls' = 0
  /\ cooldowns' = 0
  /\ firstHist' = NoHist
  /\ hist' = NoHist
  /\ UNCHANGED <<reqVars, items, res, ended, connVars, closeCalls, logVars, hadCookie,
                 installed, processed, result, addCalls, faults, fatal, paces, pauses>>

\* await sleep(2500), then the test for a batch pause
ItemPace ==
  /\ pc = "pace"
  /\ paces' = paces + 1
  /\ IF batchPauseDue(idx, Len(items))
     THEN /\ pc' = "pause"
          /\ idx' = idx
     ELSE /\ pc' = "loop"
          /\ idx' = idx + 1
  /\ UNCHANGED <<reqVars, items, outVars, connVars, closeCalls, logVars, hadCookie,
                 installed, processed, results, result, calls, cooldowns, firstHist,
                 hist, addCalls, faults, fatal, pauses>>

\* res.write({event: "batch_pause"}); await sleep(10000)
BatchPause ==
  /\ pc = "pause"
  /\ stream' = Append(stream, [event |-> "batch_pause"])
  /\ pauses' = pauses + 1
  /\ idx' = idx + 1
  /\ pc' = "loop"
  /\ UNCHANGED <<reqVars, items, res, ended, connVars, closeCalls, logVars, hadCookie,
                 installed, processed, results, result, calls, cooldowns, firstHist,
                 hist, addCalls, faults, fatal, paces>>

\* after the loop: the terminal record or the response document
Finish ==
  /\ pc = "loop"
  /\ idx = Len(items)
  /\ CASE variant = "stream" ->
            /\ stream' = Append(stream, [status |-> "done", total |-> Len(items)])
            /\ ended' = TRUE
            /\ res' = res
            /\ pc' = "finally"
       [] variant = "json" ->
            /\ res' = respond(200, [status |-> "ok", engine |-> "playwright",
                                    cookieApplied |-> hadCookie, items |-> results])
            /\ stream' = stream
            /\ ended' = ended
            /\ pc' = "finally"
       [] OTHER ->
            /\ pc' = "cart"
            /\ UNCHANGED outVars
  /\ UNCHANGED <<reqVars, items, connVars, closeCalls, logVars, hadCookie, installed,
                 itemVars, fatal, paces, pauses>>

\* part_000: page.goto(cart), read the subtotal, res.json
PeekCart ==
  /\ pc = "cart"
  /\ \E g \in {OK, TimeoutMsg} :
       IF g = OK
       THEN /\ res' = respond(200, [status |-> "ok", items |-> results])
            /\ pc' = "finally"
            /\ fatal' = fatal
       ELSE /\ res' = res
            /\ pc' = "catch"
            /\ fatal' = g
  /\ UNCHANGED <<reqVars, items, stream, ended, connVars, closeCalls, logVars, hadCookie,
                 installed, itemVars, paces, pauses>>

\* mutant: the outer catch ends the response without writing the error document
CatchSilent ==
  /\ pc = "catch"
  /\ IF variant = "stream"
     THEN /\ stream' = stream
          /\ ended' = TRUE
          /\ res' = res
     ELSE /\ res' = respond(500, [error |-> "Automation failed", detail |-> fatal])
          /\ stream' = stream
          /\ ended' = ended
  /\ pc' = "finally"
  /\ UNCHANGED <<reqVars, items, connVars, closeCalls, logVars, hadCookie, installed,
                 itemVars, fatal, paces, pauses>>

\* the outer catch: the error document
Catch ==
  /\ pc = "catch"
  /\ IF variant = "stream"
     THEN /\ stream' = Append(stream, [error |-> "Automation failed", detail |-> fatal])
          /\ ended' = TRUE
          /\ res' = res
     ELSE /\ res' = respond(500, [error |-> "Automation failed", detail |-> fatal])
          /\ stream' = stream
          /\ ended' = ended
  /\ pc' = "finally"
  /\ UNCHANGED <<reqVars, items, connVars, closeCalls, logVars, hadCookie, installed,
                 itemVars, fatal, paces, pauses>>

\* finally { try { await browser?.close() } catch {} }
\* (a close that throws is swallowed; the connection is gone either way)
Close ==
  /\ pc = "finally"
  /\ IF browser = "handle"
     THEN /\ closeCalls' = closeCalls + 1
          /\ connOpen' = connOpen - 1
     ELSE /\ closeCalls' = closeCalls
          /\ connOpen' = connOpen
  /\ pc' = "done"
  /\ UNCHANGED <<reqVars, items, outVars, browser, connOpened, attempt, lastErr,
                 backoffs, passLog, logVars, hadCookie, installed, itemVars, fatal, paces,
                 pauses>>

Next ==
  \/ CheckMethod
  \/ Auth
  \/ Validate
  \/ OpenBrowserStart
  \/ ConnectAttempt
  \/ ConnectBackoff
  \/ NewPage
  \/ ApplyCookie
  \/ EnsureLoggedIn
  \/ ItemFirst
  \/ ItemCooldown
  \/ ItemRetry
  \/ ItemRecord
  \/ ItemPace
  \/ BatchPause
  \/ Finish
  \/ PeekCart
  \/ Catch
  \/ Close

Spec == Init /\ [][Next]_vars

\* the streaming handler alone; every awaited operation returns or throws, so
\* the handler always takes its next step
InitStream == Init /\ variant = "stream"

NextStream ==
  \/ CheckMethod
  \/ Auth
  \/ Validate
  \/ OpenBrowserStart
  \/ ConnectAttempt
  \/ ConnectBackoff
  \/ NewPage
  \/ ApplyCookie
  \/ EnsureLoggedIn
  \/ ItemFirst
  \/ ItemCooldown
  \/ ItemRetry
  \/ ItemRecord
  \/ ItemPace
  \/ BatchPause
  \/ Finish
  \/ Catch
  \/ Close

SpecLive == InitStream /\ [][NextStream]_vars /\ WF_vars(NextStream)

\* the gate in front of the batch, over every header of the pool
NextAuth ==
  \/ CheckMethod
  \/ Auth
  \/ Validate
  \/ OpenBrowserStart

SpecAuth == InitAuth /\ [][NextAuth]_vars

\* requests of one item, over every raw qty of the pool
NextQty ==
  \/ CheckMethod
  \/ Auth
  \/ ValidateQty
  \/ OpenBrowserStart
  \/ ConnectAttempt
  \/ ConnectBackoff
  \/ NewPage
  \/ ApplyCookie
  \/ EnsureLoggedIn
  \/ ItemFirst
  \/ ItemCooldown
  \/ ItemRetry
  \/ ItemRecord
  \/ ItemPace
  \/ Finish
  \/ PeekCart
  \/ Catch
  \/ Close

SpecQty == Init /\ [][NextQty]_vars

\* ------------------------------------------------------------------ claims
Range(f) == {f[k] : k \in DOMAIN f}
isProgress(r) == "progress" \in DOMAIN r
Progress == SelectSeq(stream, isProgress)
\* the per-item results produced so far, in the order they were produced
Produced ==
  IF variant = "stream" THEN [k \in 1..Len(Progress) |-> Progress[k].result]
  ELSE results
BatchStarted == steps # <<>>
EnteredLoop == "loop" \in Range(steps)
LastRecord == stream[Len(stream)]
NormalEnd ==
  IF variant = "stream"
  THEN ended /\ stream # <<>> /\ "status" \in DOMAIN LastRecord
       /\ LastRecord.status = "done"
  ELSE res.code = 200 /\ res.body.status = "ok"

\* C1: on every path of a batch (success, fatal setup error, mixed per-item
\* failures) browser.close is invoked exactly once by the time the handler
\* has finished.
C1_CloseInvokedExactlyOnce ==
  (pc = "done" /\ BatchStarted) => closeCalls = 1

\* C2: a batch of n items that got past connection and session verification
\* produces exactly n results, the k-th one carrying the resolved query of the
\* k-th request item, whatever the outcomes of the items are.
C2_OneResultPerItemInOrder ==
  variant \in {"stream", "json"} =>
    /\ Len(Produced) <= Len(items)
    /\ \A k \in 1..Len(Produced) :
         /\ Produced[k].query = ResolvedQuery(items[k])
         /\ (variant = "stream" => Progress[k].item = ResolvedQuery(items[k]))
    /\ (pc = "done" /\ EnteredLoop) =>
         /\ Len(Produced) = Len(items)
         /\ (variant = "json" => res.code = 200 /\ res.body.items = results)

C2_Witness ==
  /\ pc = "done"
  /\ variant = "json"
  /\ res.code = 200
  /\ Len(items) = 3
  /\ items[1] # items[2]
  /\ Len(res.body.items) = 3
  /\ isFailed(res.body.items[1])
  /\ isAdded(res.body.items[2])

\* C3: requireAuth lets a request through only if the credential it presents
\* (the Authorization header without its leading Bearer prefix) equals the
\* configured ACTIONS_BEARER_TOKEN; any other request, one without a
\* credential included, ends with 401, is never validated and opens nothing.
presented == stripAllBearer(header)
C3_OnlyTheSecretIsAccepted ==
  (method = "POST" /\ pc \notin {"start", "auth"}
     /\ ~(presented # NoValue /\ presented = token))
  => /\ res.code = 401
     /\ pc = "done"
     /\ bodyKind = "unread"
     /\ steps = <<>>
     /\ connOpened = 0

\* C4: addItem runs at most twice for an item; the second run happens only
\* after a rate-limit signal from the first and exactly one 30 s cooldown; a
\* retry that returns Added is recorded as Added; an item whose first run
\* raised no rate-limit signal gets neither cooldown nor retry.
firstRateLimited == firstHist.end = "raised" /\ firstHist.rlAt # "none"
C4_AtMostOneRetryAfterOneCooldown ==
  /\ calls <= 2
  /\ cooldowns <= 1
  /\ (calls = 2 => firstRateLimited /\ cooldowns = 1)
  /\ (pc = "retry" => firstRateLimited /\ cooldowns = 1 /\ calls = 1)
  /\ (calls >= 1 /\ ~firstRateLimited =>
        cooldowns = 0 /\ calls = 1 /\ pc \notin {"cooldown", "retry"})
  /\ (calls = 2 /\ hist.end = "added" => pc = "record" /\ isAdded(result))
  /\ (pc \in {"pace", "pause"} => Progress[Len(Progress)].result = result)

C4_Witness ==
  /\ variant = "stream"
  /\ pc = "record"
  /\ calls = 2
  /\ cooldowns = 1
  /\ firstRateLimited
  /\ hist.end = "added"
  /\ isAdded(result)

\* C5: an item that ends NotFound or Failed (a failed retry included) has that
\* outcome recorded as its result, the items after it are still attempted, and
\* the batch ends with its normal terminal status, not the fatal error document.
C5_ItemFailuresNeverAbort ==
  /\ (pc = "record" =>
        /\ result.query = ResolvedQuery(curItem)
        /\ (hist.end = "notfound" => isNotFound(result))
        /\ (hist.end \in {"failed", "raised"} => isFailed(result))
        /\ (hist.end = "added" => isAdded(result)))
  /\ (EnteredLoop /\ variant # "legacy" => fatal = "" /\ pc # "catch")
  /\ (EnteredLoop /\ variant = "legacy" /\ fatal # "" => idx = Len(items))
  /\ (EnteredLoop /\ variant # "legacy" /\ pc = "done" =>
        /\ idx = Len(items)
        /\ addCalls >= Len(items)
        /\ Len(Produced) = Len(items)
        /\ NormalEnd)

C5_Witness ==
  /\ variant = "stream"
  /\ pc = "done"
  /\ Len(Progress) = 4
  /\ isFailed(Progress[1].result)
  /\ Progress[1].result.error = "Error: 429"
  /\ isAdded(Progress[4].result)
  /\ addCalls = 5
  /\ NormalEnd

\* C6: when every pass of the connection loop fails with a rate-limit error,
\* openBrowser makes exactly 3 passes, sleeps between consecutive passes for
\* strictly growing times, and then throws the error of the last pass.
C6_ThreeAttemptsGrowingBackoff ==
  variant \in {"stream", "json"} =>
    /\ \A j \in 1..(Len(backoffs) - 1) : backoffs[j] < backoffs[j + 1]
    /\ (pc = "connect" => Len(passLog) = attempt - 1 /\ Len(backoffs) = Len(passLog))
    /\ (pc \in {"catch", "finally", "done"} /\ passLog # <<>>
          /\ \A k \in 1..Len(passLog) : passLog[k].rl)
       => /\ Len(passLog) = 3
          /\ Len(backoffs) = 2
          /\ fatal = passLog[3].err
          /\ browser = "null"

C6_Witness ==
  /\ variant = "stream"
  /\ pc = "done"
  /\ Len(passLog) = 3
  /\ \A k \in 1..3 : passLog[k].rl
  /\ passLog[1].err # passLog[3].err
  /\ backoffs = <<500, 1000>>
  /\ fatal = passLog[3].err

\* C7: ensureLoggedIn runs once per batch, after the cookies were applied and
\* before the first addItem; when the address it lands on matches login or
\* signin the batch fails with the session-expired error, addItem never runs
\* and no per-item result or progress record is produced.
LoginPattern == {"https://www.sayweee.com/en/account/login", "https://www.sayweee.com/SignIn"}
stepsAt(name) == {k \in 1..Len(steps) : steps[k] = name}
C7_LoginCheckedOnceBeforeItems ==
  variant \in {"stream", "json"} =>
    /\ Cardinality(stepsAt("login")) <= 1
    /\ \A k \in stepsAt("login") : \E j \in stepsAt("cookie") : j < k
    /\ (EnteredLoop \/ addCalls > 0 =>
          /\ Cardinality(stepsAt("login")) = 1
          /\ \A k \in stepsAt("login") : \A j \in stepsAt("loop") : k < j
          /\ landedUrl \notin LoginPattern)
    /\ (landedUrl \in LoginPattern =>
          /\ pc \in {"catch", "finally", "done"}
          /\ fatal = SessionExpiredMsg
          /\ addCalls = 0
          /\ Progress = <<>>
          /\ results = <<>>
          /\ (pc = "done" => ~NormalEnd))

C7_Witness ==
  /\ variant = "stream"
  /\ pc = "done"
  /\ landedUrl = "https://www.sayweee.com/SignIn"
  /\ Len(stream) = 1
  /\ stream[1].detail = SessionExpiredMsg
  /\ addCalls = 0

\* C8: a body whose items are empty, absent or no array is answered with the
\* validation error before openBrowser is called; nothing is opened or closed.
C8_EmptyListRejectedBeforeConnecting ==
  (bodyKind # "unread" /\ items = <<>>) =>
    /\ res.code = 400
    /\ pc = "done"
    /\ steps = <<>>
    /\ connOpened = 0
    /\ closeCalls = 0
    /\ browser = "null"

C8_Witness ==
  /\ bodyKind = "notArray"
  /\ items = <<>>
  /\ res.code = 400
  /\ pc = "done"

\* C9: when the search yields zero result entries addItem returns
\* NotFound(query, "No results"): it raises nothing, clicks no entry and no
\* cart control, and reports neither Failed nor Added.
C9_ZeroEntriesIsNotFound ==
  (pc = "record" /\ hist.counted /\ hist.cards = 0) =>
    /\ hist.end = "notfound"
    /\ result = NotFound(ResolvedQuery(curItem), "No results")
    /\ ~hist.openTried
    /\ ~hist.addTried

\* C10: an item is reported Added only if its add-to-cart control was found
\* and the click on it succeeded.
C10_AddedOnlyAfterAddClick ==
  (pc = "record" /\ isAdded(result)) => hist.addFound /\ hist.addClicked

\* C11: the qty of an Added result is 1 plus the number of clicks on the
\* quantity-increase control that succeeded for the item, whatever was requested.
C11_EmittedQtyIsAchievedQty ==
  (pc = "record" /\ variant \in {"stream", "json"} /\ isAdded(result))
    => result.qty = Num(1 + hist.plusDone)

\* C12: the qty argument of every addItem invocation is an integer >= 1: it is 1
\* when the item's qty is absent or non-numeric, 1 when the given qty is below
\* 1, and the given value otherwise.
C12_QtyPassedIsAtLeastOne ==
  (hist.end # "none" /\ variant \in {"stream", "json"}) =>
    LET raw == curItem.qty
        q == hist.qty
    IN /\ ~q.nan
       /\ q.v >= 1
       /\ (raw.t \in {"absent", "str"} => q = Num(1))
       /\ (raw.t = "num" /\ raw.v < 1 => q = Num(1))
       /\ (raw.t = "num" /\ raw.v >= 1 => q = Num(raw.v))

\* C13: every cookie handed to addCookies has a sameSite among Strict, Lax and
\* None: a missing or other value has become Lax, one of the three is passed on
\* unchanged; the set is installed at most once, and before the navigation
\* that checks the login state.
C13_InstalledCookiesAreNormalized ==
  /\ Len(installed) <= 1
  /\ \A j \in DOMAIN installed :
       LET c == installed[j]
       IN /\ Len(c.set) = Len(c.given)
          /\ \A k \in DOMAIN c.set :
               /\ c.set[k] \in SameSites
               /\ (c.given[k] \in SameSites => c.set[k] = c.given[k])
               /\ (c.given[k] \notin SameSites => c.set[k] = "Lax")
  /\ \A l \in stepsAt("login") : \E c \in stepsAt("cookie") : c < l

\* C14: in the streaming handler, once the response headers are sent, exactly
\* one terminal record (the done record or the error document) is eventually
\* written; it is the last record of the stream and the response has ended
\* with it.
isTerminal(r) == "status" \in DOMAIN r \/ "detail" \in DOMAIN r
Terminals == SelectSeq(stream, isTerminal)
StreamStarted == variant = "stream" /\ res.code = 200
TerminalWritten == ended /\ Len(Terminals) = 1 /\ isTerminal(LastRecord)
C14_OneTerminalRecordAtTheEnd ==
  /\ [](variant = "stream" =>
         /\ Len(Terminals) <= 1
         /\ (Len(Terminals) = 1 => isTerminal(LastRecord))
         /\ (ended <=> Len(Terminals) = 1))
  /\ (StreamStarted ~> TerminalWritten)
  /\ [][TerminalWritten => stream' = stream /\ ended']_vars

C14_Witness ==
  /\ variant = "stream"
  /\ pc = "done"
  /\ TerminalWritten
  /\ Len(stream) = 3
  /\ isProgress(stream[1])
  /\ isProgress(stream[2])
  /\ LastRecord.status = "done"

\* C15: a batch opens at most one remote connection, and none that it opened
\* is still open when the handler has finished, also when connect succeeds and
\* newContext then fails.
C15_OneConnectionNoneLeftOpen ==
  variant \in {"stream", "json"} =>
    /\ connOpened <= 1
    /\ (pc = "done" => connOpen = 0)

\* C16: an addItem invocation in which a rate-limit error occurred, in whatever
\* state, ends by raising it; an invocation without one never raises.
C16_RateLimitIsRaisedFromAnyState ==
  (hist.end # "none" /\ variant \in {"stream", "json"}) =>
    (hist.rlAt # "none" <=> hist.end = "raised")

\* C17: every failed pass of the connection loop has tried both protocols, the
\* primary one and then the fallback.
C17_EveryAttemptTriesBothProtocols ==
  variant \in {"stream", "json"} =>
    \A k \in DOMAIN passLog : passLog[k].protos = 2

\* C18: a failed pass is followed by a backoff or another pass only if it was
\* classified as rate limited; the first pass that fails otherwise ends
\* openBrowser at once with that pass's error, whatever the attempt number.
LastPass == passLog[Len(passLog)]
C18_OnlyRateLimitIsRetried ==
  variant \in {"stream", "json"} =>
    /\ \A k \in 1..(Len(passLog) - 1) : passLog[k].rl
    /\ Len(backoffs) <= Len(passLog)
    /\ (pc = "backoff" => LastPass.rl)
    /\ (passLog # <<>> /\ ~LastPass.rl =>
          /\ pc \in {"catch", "finally", "done"}
          /\ fatal = LastPass.err
          /\ Len(backoffs) = Len(passLog) - 1
          /\ attempt = Len(passLog)
          /\ browser = "null")

C18_Witness ==
  /\ variant = "json"
  /\ pc = "done"
  /\ Len(passLog) = 2
  /\ passLog[1].rl
  /\ ~passLog[2].rl
  /\ backoffs = <<Backoff(1)>>
  /\ fatal = TimeoutMsg
  /\ res.code = 500

\* C19: in an invocation with qty q the quantity-increase control is never
\* clicked when q is not above 1; when q > 1 and no click fails it is clicked
\* exactly q - 1 times; after a click that failed none follows, so at most
\* q - 1 clicks are attempted, and the invocation still ends Added.
C19_IncreaseClickedQtyMinusOneTimes ==
  (hist.end # "none" /\ variant \in {"stream", "json"}) =>
    LET q == hist.qty
    IN /\ (~GT(q, 1) => hist.plusTried = 0)
       /\ (GT(q, 1) => hist.plusTried <= q.v - 1)
       /\ (GT(q, 1) /\ hist.end = "added" /\ hist.plusDone = hist.plusTried
             => hist.plusTried = q.v - 1)
       /\ hist.plusTried - hist.plusDone \in {0, 1}
       /\ (hist.plusTried > 0 => hist.end = "added")
       /\ (hist.end # "added" => hist.plusTried = 0)

C19_Witness ==
  /\ variant = "stream"
  /\ pc = "record"
  /\ hist.qty = Num(2)
  /\ hist.plusTried = 1
  /\ hist.plusDone = 1
  /\ isAdded(result)

\* C20: in the streaming handler one pacing sleep follows every progress
\* record before the next addItem starts; a batch_pause record is written
\* exactly after the progress record of each item whose position is a multiple
\* of 3 and that is not the last: a finished batch of n items has written
\* (n - 1) \div 3 of them, none after the last item.
isPause(r) == "event" \in DOMAIN r
progressBefore(p) == Cardinality({k \in 1..(p - 1) : isProgress(stream[k])})
C20_PacingAndBatchPauses ==
  variant = "stream" =>
    /\ pauses = Len(SelectSeq(stream, isPause))
    /\ \A p \in DOMAIN stream :
         isPause(stream[p]) =>
           /\ p > 1
           /\ isProgress(stream[p - 1])
           /\ progressBefore(p) % BatchSize = 0
           /\ progressBefore(p) < Len(items)
    /\ \A p \in 2..Len(stream) :
         isProgress(stream[p]) /\ isProgress(stream[p - 1])
           => progressBefore(p) % BatchSize # 0
    /\ (pc \in {"loop", "cooldown", "retry", "record"} =>
          paces = Len(Progress) /\ idx = Len(Progress))
    /\ (pc = "pause" => paces = Len(Progress))
    /\ (pc = "done" /\ NormalEnd =>
          /\ pauses = (Len(items) - 1) \div BatchSize
          /\ paces = Len(items))

C20_Witness ==
  /\ variant = "stream"
  /\ pc = "done"
  /\ NormalEnd
  /\ Len(items) = 4
  /\ Len(stream) = 6
  /\ isPause(stream[4])
  /\ isProgress(stream[5])
  /\ pauses = 1
  /\ paces = 4

\* C21: in the streaming handler the processed count of the progress records
\* never decreases, grows by at most one per item and exceeds neither the
\* number of items recorded so far nor the total; after the k-th item it is
\* the number of items among the first k whose last addItem invocation
\* returned instead of raising, so the last count equals the total of the done
\* record exactly when no item raised on its last attempt.
lastCount == IF Progress = <<>> THEN 0 ELSE Progress[Len(Progress)].progress[1]
\* the result that the catch of the retried invocation records
raisedFinal(r) == isFailed(r) /\ r.error = ErrorString("429")
returnedAmong(k) == Cardinality({j \in 1..k : ~raisedFinal(Progress[j].result)})
C21_ProcessedCountsReturnedItems ==
  variant = "stream" =>
    /\ \A k \in DOMAIN Progress :
         LET c == Progress[k].progress[1]
             before == IF k = 1 THEN 0 ELSE Progress[k - 1].progress[1]
         IN /\ Progress[k].progress[2] = Len(items)
            /\ c <= k
            /\ c <= Len(items)
            /\ c - before \in {0, 1}
            /\ c = returnedAmong(k)
    /\ (pc = "record" =>
          /\ processed = lastCount + (IF hist.end = "raised" THEN 0 ELSE 1)
          /\ (hist.end = "raised" <=> raisedFinal(result)))
    /\ (pc = "done" /\ NormalEnd =>
          /\ LastRecord.total = Len(items)
          /\ (lastCount = LastRecord.total
                <=> \A k \in DOMAIN Progress : ~raisedFinal(Progress[k].result)))

C21_Witness ==
  /\ variant = "stream"
  /\ pc = "done"
  /\ NormalEnd
  /\ Len(Progress) = 3
  /\ Progress[1].progress = <<1, 3>>
  /\ raisedFinal(Progress[2].result)
  /\ Progress[2].progress = <<1, 3>>
  /\ Progress[3].progress = <<2, 3>>
  /\ LastRecord.total = 3

====
